---- MODULE Spec2Model ----
(***************************************************************************)
(* Model of the parking analytics scripts: the history store (a ";" CSV),  *)
(* the ingestion run (update_data.main), the correlation run               *)
(* (analyze_correlations.main) and the saturation run                      *)
(* (analyze_saturation.main).                                              *)
(*                                                                         *)
(* Conventions                                                             *)
(*  - an Optional value is a set: {} is None, {v} is the value v;          *)
(*  - a timestamp is a number of minutes: day * 1440 + minute of the day;  *)
(*  - a value that Python rounds to 4 decimals is an integer number of     *)
(*    1e-4 units (0.25 is 2500), a distance rounded to 3 decimals is a     *)
(*    number of metres;                                                    *)
(*  - a CSV cell is a string; a missing cell and an empty cell are both "" *)
(*    (every reader of the code treats None and "" alike);                 *)
(*  - a numeric cell is blank, non-numeric text, or a whole number (maybe  *)
(*    written with a decimal point); the spellings "nan" and "inf" that    *)
(*    float() also accepts are not part of the modelled inputs.            *)
(***************************************************************************)
EXTENDS Integers, Sequences, FiniteSets, TLC

(***************************************************************************)
(* Bounds of the model.                                                    *)
(***************************************************************************)
\* longest initial history of the specifications that draw arbitrary rows
MaxRows == 3
\* number of ingestion runs a behaviour may contain
MaxIngest == 1
\* bits of the mantissa of a float (Python's floats have 53)
MantissaBits == 11
\* longest argument of a call of stats_lib.correlation on its own
StatLen == 3

(***************************************************************************)
(* Configuration (config.py, analyze_correlations.py, analyze_saturation). *)
(***************************************************************************)
\* config.py:62 sets 40; the model scales the threshold down so that the
\* bounded histories have pairs on both sides of it.
MIN_COMMON_POINTS == 2
\* config.py:73 sets 50; scaled down so that the truncation happens.
TOP_N_PAIRS == 2
\* config.py:66, 2.0 km, in metres
DEFAULT_MAX_DISTANCE_KM == 2000
\* config.py:72, 0.25, in 1e-4 units
MIN_ABS_CORRELATION_TO_SHOW == 2500
\* analyze_saturation.py:30, 0.90, as a percentage
SAT_THRESHOLD == 90
\* analyze_saturation.py:29
LOOKBACK_DAYS == 7
\* analyze_correlations.py:41
LOOKBACK_OPTIONS == <<7, 14, 21, 30>>
\* minutes in timedelta(days=1)
DayMinutes == 1440

Types == {"Voiture", "Velo"}

(***************************************************************************)
(* Small helpers.                                                          *)
(***************************************************************************)
Max(S) == CHOOSE x \in S : \A y \in S : y <= x
Min(S) == CHOOSE x \in S : \A y \in S : x <= y
Abs(x) == IF x < 0 THEN -x ELSE x
Range(s) == {s[i] : i \in 1..Len(s)}

RECURSIVE SumSeq(_)
SumSeq(s) == IF s = <<>> THEN 0 ELSE Head(s) + SumSeq(Tail(s))

RECURSIVE SelectSeqBy(_, _)
\* the elements of s at the positions whose flag is TRUE, in order
SelectSeqBy(s, keep) ==
    IF s = <<>> THEN <<>>
    ELSE (IF Head(keep) THEN <<Head(s)>> ELSE <<>>) \o SelectSeqBy(Tail(s), Tail(keep))

\* the ascending enumeration of a finite set of integers: sorted(S)
RECURSIVE SortedSeq(_)
SortedSeq(S) == IF S = {} THEN <<>> ELSE <<Min(S)>> \o SortedSeq(S \ {Min(S)})

(***************************************************************************)
(* Strings.  TLA+ strings are atoms, so the string functions of the code   *)
(* are given on the strings of the model.                                  *)
(***************************************************************************)
\* str.strip(): the padded spellings of the model and what they strip to
Strip(s) ==
    CASE s = " 2024-01-10" -> "2024-01-10"
      [] s = "08:00 " -> "08:00"
      [] s = " Gare" -> "Gare"
      [] s = " Voiture" -> "Voiture"
      [] s = " " -> ""
      [] OTHER -> s

\* strptime's %Y-%m-%d on the date part: the day of the year 2024, {} when it
\* raises ValueError.  A date with leading white space does not match.
ParseDate(s) ==
    CASE s = "2024-01-01" -> {1}
      [] s = "2024-01-02" -> {2}
      [] s = "2024-01-03" -> {3}
      [] s = "2024-1-3" -> {3}
      [] s = "2024-01-08" -> {8}
      [] s = "2024-01-09" -> {9}
      [] s = "2024-01-10" -> {10}
      [] s = "2024-01-11" -> {11}
      [] s = "2024-02-20" -> {51}
      [] OTHER -> {}

\* strptime's %H:%M on the time part: the minute of the day, {} when it raises
\* ValueError.  A time with trailing white space leaves unconverted data.
ParseTime(s) ==
    CASE s = "08:00" -> {480}
      [] s = "8:00" -> {480}
      [] s = "09:00" -> {540}
      [] s = "10:00" -> {600}
      [] s = "11:00" -> {660}
      [] OTHER -> {}

\* utils.make_timestamp: {} stands for the ValueError
make_timestamp(d, t) ==
    IF ParseDate(d) = {} \/ ParseTime(t) = {} THEN {}
    ELSE {(CHOOSE x \in ParseDate(d) : TRUE) * DayMinutes
          + (CHOOSE x \in ParseTime(t) : TRUE)}

\* float(x) of a numeric cell (a whole number); {} when float raises ValueError
ParseFloat(s) ==
    CASE s = "0" -> {0}
      [] s = "1" -> {1}
      [] s = "2" -> {2}
      [] s = "3" -> {3}
      [] s = "4" -> {4}
      [] s = "5" -> {5}
      [] s = "6" -> {6}
      [] s = "8" -> {8}
      [] s = "10" -> {10}
      [] s = "3.0" -> {3}
      [] s = "-5" -> {-5}
      [] OTHER -> {}

(***************************************************************************)
(* A history row is a record of six cells, named as the CSV header         *)
(* (update_data.py:43).                                                    *)
(***************************************************************************)
Row(d, t, typ, name, free, total) ==
    [Date |-> d, Heure |-> t, Type |-> typ, Nom |-> name,
     Places_Libres |-> free, Places_Totales |-> total]

(***************************************************************************)
(* Series: for each type a sequence of entries [name, pts], in the order   *)
(* the names were first stored (the insertion order of the dict), pts the  *)
(* dict ts -> value as a function.                                         *)
(***************************************************************************)
EmptySeries == [typ \in Types |-> <<>>]

\* a dict that keeps the first value stored for a key
PutFirst(m, ts, v) == [x \in (DOMAIN m) \cup {ts} |-> IF x \in DOMAIN m THEN m[x] ELSE v]

\* m[ts] = v on a dict: the later value replaces the earlier
Put(m, ts, v) == [x \in (DOMAIN m) \cup {ts} |-> IF x = ts THEN v ELSE m[x]]

\* series[typ][name][ts] = v on {"Voiture": defaultdict(dict), "Velo": ...}
SetPoint(series, typ, name, ts, v) ==
    LET es == series[typ]
        known == \E i \in 1..Len(es) : es[i].name = name
        es2 == IF known
               THEN [i \in 1..Len(es) |->
                        IF es[i].name = name
                        THEN [name |-> name, pts |-> Put(es[i].pts, ts, v)]
                        ELSE es[i]]
               ELSE Append(es, [name |-> name, pts |-> Put(<<>>, ts, v)])
    IN  [series EXCEPT ![typ] = es2]

\* the timestamp of a row as the loaders read it (cells stripped first)
RowTs(r) == make_timestamp(Strip(r.Date), Strip(r.Heure))
TsOf(r) == CHOOSE x \in RowTs(r) : TRUE

\* a loop that also skips the rows at the cutoff itself
CorrKeepsAfterCutoff(r, cutoff_ts) ==
    /\ Strip(r.Date) # "" /\ Strip(r.Heure) # ""
    /\ Strip(r.Type) # "" /\ Strip(r.Nom) # ""
    /\ RowTs(r) # {}
    /\ (cutoff_ts = {} \/ \A c \in cutoff_ts : TsOf(r) > c)
    /\ ParseFloat(Strip(r.Places_Libres)) # {}
    /\ Strip(r.Type) \in Types

\* analyze_correlations._load_time_series, the body of the loop: TRUE when
\* the row reaches the assignment of line 75
CorrKeeps(r, cutoff_ts) ==
    /\ Strip(r.Date) # "" /\ Strip(r.Heure) # ""
    /\ Strip(r.Type) # "" /\ Strip(r.Nom) # ""
    /\ RowTs(r) # {}
    /\ (cutoff_ts = {} \/ \A c \in cutoff_ts : ~(TsOf(r) < c))
    /\ ParseFloat(Strip(r.Places_Libres)) # {}
    /\ Strip(r.Type) \in Types

\* line 67: free_i = int(float(free))
CorrValue(r) == CHOOSE x \in ParseFloat(Strip(r.Places_Libres)) : TRUE

\* line 75: series[typ][name][ts] = free_i
CorrStore(series, r) ==
    SetPoint(series, Strip(r.Type), Strip(r.Nom), TsOf(r), CorrValue(r))

RECURSIVE CorrLoad(_, _, _)
CorrLoad(series, rows, cutoff_ts) ==
    IF rows = <<>> THEN series
    ELSE CorrLoad(IF CorrKeeps(Head(rows), cutoff_ts)
                  THEN CorrStore(series, Head(rows)) ELSE series,
                  Tail(rows), cutoff_ts)

\* analyze_correlations._load_time_series: series[type][name][timestamp] = free
load_time_series(csv_rows, cutoff_ts) == CorrLoad(EmptySeries, csv_rows, cutoff_ts)

\* analyze_correlations._compute_deltas: timestamp -> delta (t - t-1)
compute_deltas(pts) ==
    LET ts == DOMAIN pts
    IN  [t \in ts \ {Min(ts)} |-> pts[t] - pts[Max({u \in ts : u < t})]]

(***************************************************************************)
(* stats_lib.correlation on integer vectors, in exact arithmetic.  With    *)
(* n = len(x): VarN = n^2 * variance, CovN = n^2 * covariance.  The        *)
(* coefficient cov / (sx * sy) is kept as its sign and its square          *)
(* num / den, so that the roundings of the callers are computed exactly.   *)
(***************************************************************************)
RECURSIVE DotSeq(_, _)
DotSeq(x, y) == IF x = <<>> THEN 0 ELSE Head(x) * Head(y) + DotSeq(Tail(x), Tail(y))

VarN(x) == Len(x) * DotSeq(x, x) - SumSeq(x) * SumSeq(x)
CovN(x, y) == Len(x) * DotSeq(x, y) - SumSeq(x) * SumSeq(y)

\* stats_lib.correlation: 0.0 when a standard deviation is 0
correlation(x, y) ==
    IF VarN(x) = 0 \/ VarN(y) = 0
    THEN [sgn |-> 0, num |-> 0, den |-> 1]
    ELSE [sgn |-> IF CovN(x, y) < 0 THEN -1 ELSE IF CovN(x, y) > 0 THEN 1 ELSE 0,
          num |-> CovN(x, y) * CovN(x, y),
          den |-> VarN(x) * VarN(y)]

\* floor(q0 * 10^k + (rem / den) * 10^k), digit by digit
RECURSIVE LongDiv(_, _, _, _)
LongDiv(q, rem, den, k) ==
    IF k = 0 THEN q
    ELSE LongDiv(q * 10 + ((rem * 10) \div den), (rem * 10) % den, den, k - 1)

\* the largest s in lo..hi with s * s <= q
RECURSIVE ISqrt(_, _, _)
ISqrt(q, lo, hi) ==
    IF lo = hi THEN lo
    ELSE LET mid == (lo + hi + 1) \div 2
         IN  IF mid * mid <= q THEN ISqrt(q, mid, hi) ELSE ISqrt(q, lo, mid - 1)

\* round(sqrt(num / den), 4) in 1e-4 units, for 0 <= num <= den: the floor of
\* 2e4 * sqrt(num / den), plus one, halved (ties are rounded up)
Round4Root(num, den) ==
    LET q == LongDiv((4 * num) \div den, (4 * num) % den, den, 8)
    IN  (ISqrt(q, 0, 20000) + 1) \div 2

(***************************************************************************)
(* stats_lib on floats.  A float is [m, e], the number m * 2^e, with         *)
(* m = 0 or 2^(MantissaBits-1) <= |m| < 2^MantissaBits; every operation     *)
(* returns the float nearest to the exact result, ties to the even          *)
(* mantissa, as IEEE 754 does.  Python's floats have 53 bits; the exponent  *)
(* is not bounded here (no overflow, no underflow).                         *)
(***************************************************************************)
RECURSIVE Pow2(_)
Pow2(k) == IF k = 0 THEN 1 ELSE 2 * Pow2(k - 1)

FlZero == [m |-> 0, e |-> 0]

\* the float nearest to (num / den) * 2^e, for num >= 0 and den > 0
RECURSIVE FlRound(_, _, _)
FlRound(num, den, e) ==
    IF num = 0 THEN FlZero
    ELSE IF num >= den * Pow2(MantissaBits) THEN FlRound(num, den * 2, e + 1)
    ELSE IF num < den * Pow2(MantissaBits - 1) THEN FlRound(num * 2, den, e - 1)
    ELSE LET q == num \div den
             r == num % den
             up == 2 * r > den \/ (2 * r = den /\ q % 2 = 1)
             q2 == IF up THEN q + 1 ELSE q
         IN  IF q2 = Pow2(MantissaBits)
             THEN [m |-> Pow2(MantissaBits - 1), e |-> e + 1]
             ELSE [m |-> q2, e |-> e]

FlNeg(a) == [m |-> -a.m, e |-> a.e]

\* the float of a signed ratio (a literal such as 0.1, or an int)
FlOfRatio(num, den) ==
    IF num < 0 THEN FlNeg(FlRound(-num, den, 0)) ELSE FlRound(num, den, 0)

\* a + b; a term below a quarter of the last bit of the other does not
\* change it
FlAdd(a, b) ==
    IF a.m = 0 THEN b
    ELSE IF b.m = 0 THEN a
    ELSE IF a.e - b.e >= MantissaBits + 2 THEN a
    ELSE IF b.e - a.e >= MantissaBits + 2 THEN b
    ELSE LET lo == IF a.e < b.e THEN a.e ELSE b.e
             v == a.m * Pow2(a.e - lo) + b.m * Pow2(b.e - lo)
         IN  IF v < 0 THEN FlNeg(FlRound(-v, 1, lo)) ELSE FlRound(v, 1, lo)

FlSub(a, b) == FlAdd(a, FlNeg(b))

\* a * b
FlMul(a, b) ==
    LET v == a.m * b.m
    IN  IF v < 0 THEN FlNeg(FlRound(-v, 1, a.e + b.e)) ELSE FlRound(v, 1, a.e + b.e)

\* a / b, b # 0
FlDiv(a, b) ==
    LET neg == (a.m < 0) # (b.m < 0)
        q == FlRound(Abs(a.m), Abs(b.m), a.e - b.e)
    IN  IF neg THEN FlNeg(q) ELSE q

\* math.sqrt(a), a >= 0: the square root of m * 2^e with e made even and m
\* scaled by a power of 4 until its integer root has more than MantissaBits
\* bits; a remainder makes the root inexact, strictly between two integers
RECURSIVE FlSqrtScaled(_, _)
FlSqrtScaled(m, e) ==
    IF m < Pow2(2 * MantissaBits) THEN FlSqrtScaled(4 * m, e - 2)
    ELSE LET s == ISqrt(m, 0, Pow2(MantissaBits + 1))
             sticky == IF s * s < m THEN 1 ELSE 0
         IN  FlRound(2 * s + sticky, 2, e \div 2)

FlSqrt(a) ==
    IF a.m = 0 THEN FlZero
    ELSE IF a.e % 2 = 0 THEN FlSqrtScaled(a.m, a.e)
    ELSE FlSqrtScaled(2 * a.m, a.e - 1)

\* sum(vals), from the int 0, left to right
RECURSIVE FlSum(_, _)
FlSum(acc, vals) ==
    IF vals = <<>> THEN acc ELSE FlSum(FlAdd(acc, Head(vals)), Tail(vals))

\* stats_lib.moyenne
moyenne(vals) == FlDiv(FlSum(FlZero, vals), FlOfRatio(Len(vals), 1))

\* stats_lib.variance; d ** 2 is taken as the float nearest to d * d (the
\* pow of the C library may be one last bit away from it)
variance(vals) ==
    LET m == moyenne(vals)
        sq == [i \in 1..Len(vals) |-> FlMul(FlSub(vals[i], m), FlSub(vals[i], m))]
    IN  FlDiv(FlSum(FlZero, sq), FlOfRatio(Len(vals), 1))

\* stats_lib.ecart_type
ecart_type(vals) == FlSqrt(variance(vals))

\* stats_lib.covariance, for xs and ys of the same length
covariance(xs, ys) ==
    LET mx == moyenne(xs)
        my == moyenne(ys)
        pr == [i \in 1..Len(xs) |-> FlMul(FlSub(xs[i], mx), FlSub(ys[i], my))]
    IN  FlDiv(FlSum(FlZero, pr), FlOfRatio(Len(xs), 1))

\* stats_lib.correlation on floats, for xs and ys non-empty and of the same
\* length
float_correlation(xs, ys) ==
    LET sx == ecart_type(xs)
        sy == ecart_type(ys)
    IN  IF sx.m = 0 \/ sy.m = 0 THEN FlZero
        ELSE FlDiv(covariance(xs, ys), FlMul(sx, sy))

(***************************************************************************)
(* Geography.  A coordinate of the metadata is one of three sites on a     *)
(* meridian: site 1 is ln(2) km and site 2 is ln(10) km north of site 0,   *)
(* so that the decay exp(-d / 1.0) between two sites is 1, 1/2, 1/5 or     *)
(* 1/10.                                                                   *)
(***************************************************************************)
Sites == {0, 1, 2}

\* geo.haversine_km between two sites, rounded to 3 decimals, in metres:
\* ln(2) = 0.693, ln(5) = 1.609, ln(10) = 2.303
haversine_km(p, q) ==
    CASE p = q -> 0
      [] {p, q} = {0, 1} -> 693
      [] {p, q} = {1, 2} -> 1609
      [] {p, q} = {0, 2} -> 2303

\* math.exp(-distance_km / DISTANCE_WEIGHT_KM), DISTANCE_WEIGHT_KM = 1.0
\* (config.py:69), for the distances between sites, as a percentage
ExpDecay(d) ==
    CASE d = 0 -> 100
      [] d = 693 -> 50
      [] d = 1609 -> 20
      [] d = 2303 -> 10

\* analyze_correlations._coord: (lat, lon) of the metadata, None when the
\* entry, the latitude or the longitude is missing
coord(meta, typ, name) ==
    IF <<typ, name>> \in DOMAIN meta THEN meta[<<typ, name>>] ELSE {}

(***************************************************************************)
(* analyze_correlations.compute_for_days.                                  *)
(***************************************************************************)
\* the position of a name in Python's order of str (code points)
NameRank(name) ==
    CASE name = "Antigone" -> 1
      [] name = "Comedie" -> 2
      [] name = "Comédie" -> 3
      [] name = "Gare" -> 4
      [] name = "Odysseum" -> 5

\* sorted(names) of a set of names
RECURSIVE SortedNames(_)
SortedNames(S) ==
    IF S = {} THEN <<>>
    ELSE LET m == CHOOSE x \in S : \A y \in S : NameRank(x) <= NameRank(y)
         IN  <<m>> \o SortedNames(S \ {m})

RECURSIVE Concat(_)
Concat(ss) == IF ss = <<>> THEN <<>> ELSE Head(ss) \o Concat(Tail(ss))

\* the variations of every entity, whatever its number of points
DeltasOfAll(entries) ==
    [i \in 1..Len(entries) |->
        [name |-> entries[i].name, deltas |-> compute_deltas(entries[i].pts)]]

\* lines 124-125: {name: _compute_deltas(ts_map) ... if len(ts_map) >= 2},
\* in the order of the series' names
DeltasOf(entries) ==
    LET sel == SelectSeqBy(entries,
                   [i \in 1..Len(entries) |-> Cardinality(DOMAIN entries[i].pts) >= 2])
    IN  [i \in 1..Len(sel) |->
            [name |-> sel[i].name, deltas |-> compute_deltas(sel[i].pts)]]

\* line 136: common_ts = sorted(set(c_map.keys()) & set(b_map.keys()))
CommonTs(c, b) == SortedSeq((DOMAIN c.deltas) \cap (DOMAIN b.deltas))

\* a score that counts an unknown distance as an infinite one
score_unknown_is_far(r, abs_r, distance_km) ==
    IF distance_km = {} THEN 0
    ELSE LET e == ExpDecay(CHOOSE d \in distance_km : TRUE)
         IN  Round4Root(r.num * e * e, r.den * 10000)

\* lines 151-154 and 165: round(abs(r) * exp(-distance_km / 1.0), 4) when the
\* distance is known, else round(abs(r), 4)
score_of(r, abs_r, distance_km) ==
    IF distance_km = {} THEN abs_r
    ELSE LET e == ExpDecay(CHOOSE d \in distance_km : TRUE)
         IN  Round4Root(r.num * e * e, r.den * 10000)

\* lines 141-166: the record appended to pairs
PairRecord(c, b, meta) ==
    LET common_ts == CommonTs(c, b)
        n == Len(common_ts)
        x == [i \in 1..n |-> c.deltas[common_ts[i]]]
        y == [i \in 1..n |-> b.deltas[common_ts[i]]]
        r == correlation(x, y)
        car_xy == coord(meta, "Voiture", c.name)
        bike_xy == coord(meta, "Velo", b.name)
        distance_km ==
            IF car_xy # {} /\ bike_xy # {}
            THEN {haversine_km(CHOOSE p \in car_xy : TRUE, CHOOSE q \in bike_xy : TRUE)}
            ELSE {}
        abs_r == Round4Root(r.num, r.den)
    IN  [car |-> c.name, bike |-> b.name, r |-> r.sgn * abs_r,
         abs_r |-> abs_r, distance_km |-> distance_km, n |-> n,
         score |-> score_of(r, abs_r, distance_km)]

\* a turn of the inner loop that keeps every pair
PairOfAnyCount(c, b, meta) == << PairRecord(c, b, meta) >>

\* lines 134-166, one turn of the inner loop: <<>> when the pair is skipped
\* (lines 137-138), else the record appended to pairs
PairOf(c, b, meta) ==
    IF Len(CommonTs(c, b)) < MIN_COMMON_POINTS THEN <<>>
    ELSE << PairRecord(c, b, meta) >>

\* lines 130-166: the cross-join, cars outermost, in the order of the dicts
CrossJoin(car_deltas, bike_deltas, meta) ==
    Concat([i \in 1..Len(car_deltas) |->
        Concat([j \in 1..Len(bike_deltas) |->
            PairOf(car_deltas[i], bike_deltas[j], meta)])])

\* a matrix whose cells hold the magnitude of the coefficient
MatrixOfMagnitudes(cars, bikes, pairs) ==
    [i \in 1..Len(cars) |-> [j \in 1..Len(bikes) |->
        {pairs[k].abs_r : k \in {k \in 1..Len(pairs) :
            pairs[k].car = cars[i] /\ pairs[k].bike = bikes[j]}}]]

\* lines 169-177: the matrix, a row per sorted car, a cell per sorted bike;
\* a cell is {} (null) or {r}
Matrix(cars, bikes, pairs) ==
    [i \in 1..Len(cars) |-> [j \in 1..Len(bikes) |->
        {pairs[k].r : k \in {k \in 1..Len(pairs) :
            pairs[k].car = cars[i] /\ pairs[k].bike = bikes[j]}}]]

\* p placed before the elements of equal score
InsertBeforeTies(sorted, p) ==
    LET k == Cardinality({i \in 1..Len(sorted) : sorted[i].score > p.score})
    IN  SubSeq(sorted, 1, k) \o <<p>> \o SubSeq(sorted, k + 1, Len(sorted))

\* p placed in a list sorted by score descending, after the elements whose
\* score is not smaller
InsertByScore(sorted, p) ==
    LET k == Cardinality({i \in 1..Len(sorted) : sorted[i].score >= p.score})
    IN  SubSeq(sorted, 1, k) \o <<p>> \o SubSeq(sorted, k + 1, Len(sorted))

\* line 179: sorted(pairs, key=score, reverse=True), a stable sort
RECURSIVE SortByScore(_, _)
SortByScore(sorted, pairs) ==
    IF pairs = <<>> THEN sorted
    ELSE SortByScore(InsertByScore(sorted, Head(pairs)), Tail(pairs))

\* a filter that drops the pairs whose distance is unknown
ShownWithKnownDistance(p) ==
    /\ p.abs_r >= MIN_ABS_CORRELATION_TO_SHOW
    /\ p.distance_km # {}
    /\ \A d \in p.distance_km : d <= DEFAULT_MAX_DISTANCE_KM

\* lines 184-185: the condition of the top_global filter
ShownByDefault(p) ==
    /\ p.abs_r >= MIN_ABS_CORRELATION_TO_SHOW
    /\ (p.distance_km = {} \/ \A d \in p.distance_km : d <= DEFAULT_MAX_DISTANCE_KM)

\* lines 181-186
TopGlobal(pairs_sorted) ==
    LET shown == SelectSeqBy(pairs_sorted,
                     [i \in 1..Len(pairs_sorted) |-> ShownByDefault(pairs_sorted[i])])
    IN  SubSeq(shown, 1, IF Len(shown) < TOP_N_PAIRS THEN Len(shown) ELSE TOP_N_PAIRS)

\* lines 118-120
Cutoff(latest_ts, days) == {t - days * DayMinutes : t \in latest_ts}

compute_for_days(csv_rows, meta, latest_ts, days) ==
    LET series == load_time_series(csv_rows, Cutoff(latest_ts, days))
        car_deltas == DeltasOf(series["Voiture"])
        bike_deltas == DeltasOf(series["Velo"])
        cars == SortedNames({car_deltas[i].name : i \in 1..Len(car_deltas)})
        bikes == SortedNames({bike_deltas[i].name : i \in 1..Len(bike_deltas)})
        pairs == CrossJoin(car_deltas, bike_deltas, meta)
        pairs_sorted == SortByScore(<<>>, pairs)
    IN  [generated_at |-> latest_ts,
         lookback_days |-> days,
         cars |-> cars,
         bikes |-> bikes,
         matrix |-> Matrix(cars, bikes, pairs),
         pairs |-> pairs_sorted,
         top_global |-> TopGlobal(pairs_sorted),
         counts |-> [cars |-> Len(cars), bikes |-> Len(bikes),
                     pairs_computed |-> Len(pairs)]]

(***************************************************************************)
(* utils: the readers of the history store.                                *)
(***************************************************************************)
\* utils.read_semicolon_csv: the rows of the file, [] when it does not exist
read_semicolon_csv(file) == file

\* utils.max_timestamp_in_csv, the loop over rows already read: the cells are
\* not stripped here
RECURSIVE MaxTs(_, _)
MaxTs(best, rows) ==
    IF rows = <<>> THEN best
    ELSE LET r == Head(rows)
             ts == make_timestamp(r.Date, r.Heure)
             skip == r.Date = "" \/ r.Heure = "" \/ ts = {}
             better == best = {} \/ \A b \in best : \A t \in ts : t > b
         IN  MaxTs(IF ~skip /\ better THEN ts ELSE best, Tail(rows))

\* utils.max_timestamp_in_csv: reads the file itself
max_timestamp_in_csv(file) == MaxTs({}, read_semicolon_csv(file))

(***************************************************************************)
(* analyze_saturation.  An occupancy is the exact fraction num / den.      *)
(***************************************************************************)
RECURSIVE Gcd(_, _)
Gcd(a, b) == IF b = 0 THEN a ELSE Gcd(b, a % b)
Lcm(a, b) == (a * b) \div Gcd(a, b)
RECURSIVE LcmSeq(_)
LcmSeq(s) == IF s = <<>> THEN 1 ELSE Lcm(Head(s), LcmSeq(Tail(s)))

\* round(a / b, 4) in 1e-4 units, a >= 0, b > 0 (ties are rounded up)
Round4(a, b) == (20000 * a + b) \div (2 * b)

\* an occupancy of 0.0 where the capacity does not allow one
occ_without_guard(free, total) ==
    IF total <= 0 THEN {[num |-> 0, den |-> 1]}
    ELSE {[num |-> IF total - free < 0 THEN 0
                   ELSE IF total - free > total THEN total
                   ELSE total - free,
           den |-> total]}

\* an occupancy that is not brought back into [0, 1]
occ_unclamped(free, total) ==
    IF total <= 0 THEN {}
    ELSE {[num |-> total - free, den |-> total]}

\* analyze_saturation.occ_from_free_total: None when total <= 0, else
\* 1 - free / total brought back into [0, 1]
occ_from_free_total(free, total) ==
    IF total <= 0 THEN {}
    ELSE {[num |-> IF total - free < 0 THEN 0
                   ELSE IF total - free > total THEN total
                   ELSE total - free,
           den |-> total]}

\* analyze_saturation.main, lines 74-99: TRUE when the row reaches the
\* assignment of line 102
SatKeeps(r, cutoff) ==
    /\ Strip(r.Date) # "" /\ Strip(r.Heure) # ""
    /\ Strip(r.Type) \in Types /\ Strip(r.Nom) # ""
    /\ RowTs(r) # {}
    /\ ~(TsOf(r) < cutoff)
    /\ ParseFloat(Strip(r.Places_Libres)) # {}
    /\ ParseFloat(Strip(r.Places_Totales)) # {}
    /\ occ_from_free_total(CHOOSE f \in ParseFloat(Strip(r.Places_Libres)) : TRUE,
                           CHOOSE t \in ParseFloat(Strip(r.Places_Totales)) : TRUE) # {}

\* lines 92-97: the value (occ, total) of a row
SatValue(r) ==
    LET free == CHOOSE f \in ParseFloat(Strip(r.Places_Libres)) : TRUE
        total == CHOOSE t \in ParseFloat(Strip(r.Places_Totales)) : TRUE
    IN  [occ |-> CHOOSE o \in occ_from_free_total(free, total) : TRUE, total |-> total]

\* line 102: series[typ][name][ts] = (occ, total)
SatStore(series, r) ==
    SetPoint(series, Strip(r.Type), Strip(r.Nom), TsOf(r), SatValue(r))

\* analyze_saturation.main, the loop of lines 73-102
RECURSIVE SatLoad(_, _, _)
SatLoad(series, rows, cutoff) ==
    IF rows = <<>> THEN series
    ELSE SatLoad(IF SatKeeps(Head(rows), cutoff)
                 THEN SatStore(series, Head(rows)) ELSE series,
                 Tail(rows), cutoff)

\* x >= SAT_THRESHOLD for an occupancy
Saturated(occ) == occ.num * 100 >= SAT_THRESHOLD * occ.den

\* lines 110-126: the ranking entry of one series
RankEntry(e) ==
    LET ts_sorted == SortedSeq(DOMAIN e.pts)
        occ_values == [i \in 1..Len(ts_sorted) |-> e.pts[ts_sorted[i]].occ]
        n == Len(occ_values)
        L == LcmSeq([i \in 1..n |-> occ_values[i].den])
        total == SumSeq([i \in 1..n |-> occ_values[i].num * (L \div occ_values[i].den)])
        mx == CHOOSE o \in Range(occ_values) :
                  \A o2 \in Range(occ_values) : o2.num * o.den <= o.num * o2.den
        sat == Cardinality({i \in 1..n : Saturated(occ_values[i])})
    IN  [name |-> e.name,
         mean_occ |-> Round4(total, n * L),
         max_occ |-> Round4(mx.num, mx.den),
         sat_pct |-> Round4(sat, n),
         n_points |-> n]

\* a sort key made of mean_occ alone
KeyGeqMeanOnly(a, b) == a.mean_occ >= b.mean_occ

\* the sort key of line 129 compared as Python compares tuples: a >= b
KeyGeq(a, b) ==
    \/ a.mean_occ > b.mean_occ
    \/ a.mean_occ = b.mean_occ /\ a.sat_pct > b.sat_pct
    \/ a.mean_occ = b.mean_occ /\ a.sat_pct = b.sat_pct /\ a.max_occ >= b.max_occ

\* x placed in a list sorted by key descending, after the elements whose key
\* is not smaller
InsertByKey(sorted, x) ==
    LET k == Cardinality({i \in 1..Len(sorted) : KeyGeq(sorted[i], x)})
    IN  SubSeq(sorted, 1, k) \o <<x>> \o SubSeq(sorted, k + 1, Len(sorted))

\* line 129: out.sort(key=..., reverse=True), a stable sort
RECURSIVE SortByKey(_, _)
SortByKey(sorted, xs) ==
    IF xs = <<>> THEN sorted
    ELSE SortByKey(InsertByKey(sorted, Head(xs)), Tail(xs))

\* analyze_saturation.build_ranking: a series stored by the loop is never
\* empty, so no entry is skipped by lines 108 and 112
build_ranking(series, typ) ==
    SortByKey(<<>>, [i \in 1..Len(series[typ]) |-> RankEntry(series[typ][i])])

\* a city curve that counts an entity without a point at a timestamp as an
\* occupancy of 0
city_curve_zero_filled(series, typ) ==
    LET es == series[typ]
        tss == SortedSeq(UNION {DOMAIN es[i].pts : i \in 1..Len(es)})
        values(ts) == LET here == SelectSeqBy(es, [i \in 1..Len(es) |-> ts \in DOMAIN es[i].pts])
                      IN  [i \in 1..Len(here) |-> here[i].pts[ts].occ]
        avg(vs) == LET L == LcmSeq([i \in 1..Len(vs) |-> vs[i].den])
                   IN  Round4(SumSeq([i \in 1..Len(vs) |-> vs[i].num * (L \div vs[i].den)]),
                              Len(es) * L)
    IN  [k \in 1..Len(tss) |-> [ts |-> tss[k], avg_occ |-> avg(values(tss[k]))]]

\* lines 137-152: the city curve of a type, as a sequence of
\* [ts, avg_occ] in ascending ts
city_curve(series, typ) ==
    LET es == series[typ]
        tss == SortedSeq(UNION {DOMAIN es[i].pts : i \in 1..Len(es)})
        values(ts) == LET here == SelectSeqBy(es, [i \in 1..Len(es) |-> ts \in DOMAIN es[i].pts])
                      IN  [i \in 1..Len(here) |-> here[i].pts[ts].occ]
        avg(vs) == LET L == LcmSeq([i \in 1..Len(vs) |-> vs[i].den])
                   IN  Round4(SumSeq([i \in 1..Len(vs) |-> vs[i].num * (L \div vs[i].den)]),
                              Len(vs) * L)
    IN  [k \in 1..Len(tss) |-> [ts |-> tss[k], avg_occ |-> avg(values(tss[k]))]]

\* lines 59-166: the artifact of a run whose latest timestamp is defined
SaturationReport(rows, latest_ts) ==
    LET series == SatLoad(EmptySeries, rows, latest_ts - LOOKBACK_DAYS * DayMinutes)
    IN  [generated_at |-> latest_ts,
         rankings |-> [cars |-> build_ranking(series, "Voiture"),
                       bikes |-> build_ranking(series, "Velo")],
         city_curves |-> [cars |-> city_curve(series, "Voiture"),
                          bikes |-> city_curve(series, "Velo")]]

(***************************************************************************)
(* update_data: the ingestion run.                                         *)
(***************************************************************************)
\* utils.normalize_key: lower case, accents removed
normalize_key(name) ==
    CASE name = "Antigone" -> "antigone"
      [] name = "Comedie" -> "comedie"
      [] name = "Comédie" -> "comedie"
      [] name = "Gare" -> "gare"
      [] name = "Odysseum" -> "odysseum"
      [] OTHER -> name

\* the position of a normalised key in Python's order of str
KeyRank(key) ==
    CASE key = "antigone" -> 1
      [] key = "comedie" -> 2
      [] key = "gare" -> 3
      [] key = "odysseum" -> 4
      [] OTHER -> 5

\* str(n) as csv.writer writes the numbers of a CsvRow
IntStr(n) ==
    CASE n = 0 -> "0" [] n = 1 -> "1" [] n = 2 -> "2" [] n = 3 -> "3"
      [] n = 4 -> "4" [] n = 5 -> "5" [] n = 6 -> "6" [] n = 8 -> "8"
      [] n = 10 -> "10" [] n = -5 -> "-5"

\* utils.load_canonical_name_maps: the first name met for a (type, key), as a
\* set of <<type, key, name>>
RECURSIVE CanonicalMaps(_, _)
CanonicalMaps(mapping, rows) ==
    IF rows = <<>> THEN mapping
    ELSE LET typ == Strip(Head(rows).Type)
             name == Strip(Head(rows).Nom)
             key == normalize_key(name)
             skip == typ = "" \/ name = ""
                     \/ \E m \in mapping : m[1] = typ /\ m[2] = key
         IN  CanonicalMaps(IF skip THEN mapping ELSE mapping \cup {<<typ, key, name>>},
                           Tail(rows))

load_canonical_name_maps(file) == CanonicalMaps({}, read_semicolon_csv(file))

\* update_data._canonicalize_name
canonicalize_name(typ, raw_name, canonical_maps) ==
    LET hit == {m \in canonical_maps : m[1] = typ /\ m[2] = normalize_key(raw_name)}
    IN  IF hit # {} THEN (CHOOSE m \in hit : TRUE)[3] ELSE raw_name

\* x placed in a list sorted by normalize_key(name), after the equal keys
InsertByName(sorted, x) ==
    LET k == Cardinality({i \in 1..Len(sorted) :
                 KeyRank(normalize_key(sorted[i].name)) <= KeyRank(normalize_key(x.name))})
    IN  SubSeq(sorted, 1, k) \o <<x>> \o SubSeq(sorted, k + 1, Len(sorted))

\* rows.sort(key=lambda r: normalize_key(r.name)), a stable sort
RECURSIVE SortByName(_, _)
SortByName(sorted, xs) ==
    IF xs = <<>> THEN sorted
    ELSE SortByName(InsertByName(sorted, Head(xs)), Tail(xs))

\* update_data._parse_car_entities / _parse_bike_entities: the items of a
\* payload, [name, free, total, site], names made canonical; a car whose total
\* is <= 0 is left out, a bike is not
parse_entities(typ, payload, canonical_maps) ==
    LET kept == SelectSeqBy(payload,
                    [i \in 1..Len(payload) |-> typ = "Velo" \/ payload[i].total > 0])
    IN  SortByName(<<>>, [i \in 1..Len(kept) |->
            [kept[i] EXCEPT !.name = canonicalize_name(typ, kept[i].name, canonical_maps)]])

\* the CsvRow of an item, written at the date and time of `now`
CsvRowOf(typ, it, now) ==
    Row(now[1], now[2], typ, it.name, IntStr(it.free), IntStr(it.total))

\* utils.existing_keys_for_timestamp: the cells Date and Heure are compared
\* as they are, Type and Nom are stripped
existing_keys_for_timestamp(file, date_str, time_str) ==
    {<<Strip(file[i].Type), Strip(file[i].Nom)>> :
        i \in {i \in 1..Len(file) :
                  /\ file[i].Date = date_str /\ file[i].Heure = time_str
                  /\ Strip(file[i].Type) # "" /\ Strip(file[i].Nom) # ""}}

\* update_data._update_metadata: a known point replaces the entry, an unknown
\* one keeps what is there
RECURSIVE update_metadata(_, _, _)
update_metadata(meta, typ, items) ==
    IF items = <<>> THEN meta
    ELSE LET it == Head(items)
             k == <<typ, it.name>>
             m2 == IF it.site = {}
                   THEN (IF k \in DOMAIN meta THEN meta ELSE Put(meta, k, {}))
                   ELSE Put(meta, k, it.site)
         IN  update_metadata(m2, typ, Tail(items))

(***************************************************************************)
(* State.                                                                  *)
(***************************************************************************)
VARIABLES
    history,       \* data/historique_parkings.csv: the rows of the file
    metadata,      \* data/metadata.json: <<type, name>> -> Optional site
    snapshot,      \* docs/data/latest_snapshot.json, {} before the first run
    clock,         \* the instant of the latest ingestion, an index of Instants
    ingests,       \* number of ingestion runs so far
    corr,          \* the correlation run: its position and its local variables
    artifacts,     \* docs/data/correlations_<days>.json per window, {} = absent
    sat,           \* the saturation run: its position and its local variables
    sat_artifact,  \* docs/data/saturation_7d.json, {} = absent
    calc           \* a call of stats_lib.correlation: its arguments and result

vars == <<history, metadata, snapshot, clock, ingests, corr, artifacts, sat, sat_artifact, calc>>

\* the instants at which an ingestion may run: datetime.now() as
\* <<strftime("%Y-%m-%d"), strftime("%H:%M")>>
Instants == << <<"2024-01-11", "09:00">>, <<"2024-01-11", "10:00">>, <<"2024-02-20", "08:00">> >>

NWindows == Len(LOOKBACK_OPTIONS)

CorrStart ==
    [pc |-> "rows", csv_rows |-> <<>>, meta |-> <<>>, latest_ts |-> {},
     i |-> 1, cutoff_ts |-> {}, series |-> EmptySeries, out |-> {}]
SatStart == [pc |-> "rows", rows |-> <<>>, latest_ts |-> {}, series |-> EmptySeries]

(***************************************************************************)
(* analyze_correlations.main, one action per statement that reads or       *)
(* writes a file.                                                          *)
(***************************************************************************)
\* line 210
CorrReadRows ==
    /\ corr.pc = "rows"
    /\ corr' = [corr EXCEPT !.pc = "meta", !.csv_rows = read_semicolon_csv(history)]
    /\ UNCHANGED <<history, metadata, snapshot, clock, ingests, artifacts, sat, sat_artifact, calc>>

\* line 211
CorrReadMeta ==
    /\ corr.pc = "meta"
    /\ corr' = [corr EXCEPT !.pc = "latest", !.meta = metadata]
    /\ UNCHANGED <<history, metadata, snapshot, clock, ingests, artifacts, sat, sat_artifact, calc>>

\* line 212
CorrReadLatest ==
    /\ corr.pc = "latest"
    /\ corr' = [corr EXCEPT !.pc = "compute", !.latest_ts = max_timestamp_in_csv(history)]
    /\ UNCHANGED <<history, metadata, snapshot, clock, ingests, artifacts, sat, sat_artifact, calc>>

\* line 216, for the window LOOKBACK_OPTIONS[corr.i]
CorrCompute ==
    /\ corr.pc = "compute"
    /\ corr' = [corr EXCEPT
                   !.pc = "save",
                   !.cutoff_ts = Cutoff(corr.latest_ts, LOOKBACK_OPTIONS[corr.i]),
                   !.series = load_time_series(corr.csv_rows,
                                  Cutoff(corr.latest_ts, LOOKBACK_OPTIONS[corr.i])),
                   !.out = {compute_for_days(corr.csv_rows, corr.meta, corr.latest_ts,
                                             LOOKBACK_OPTIONS[corr.i])}]
    /\ UNCHANGED <<history, metadata, snapshot, clock, ingests, artifacts, sat, sat_artifact, calc>>

\* line 217, then the next turn of the loop of line 215
CorrSave ==
    /\ corr.pc = "save"
    /\ artifacts' = [artifacts EXCEPT ![corr.i] = corr.out]
    /\ corr' = [corr EXCEPT !.pc = IF corr.i = NWindows THEN "done" ELSE "compute",
                            !.i = corr.i + 1]
    /\ UNCHANGED <<history, metadata, snapshot, clock, ingests, sat, sat_artifact, calc>>

(***************************************************************************)
(* analyze_saturation.main.                                                *)
(***************************************************************************)
\* line 53
SatReadRows ==
    /\ sat.pc = "rows"
    /\ sat' = [sat EXCEPT !.pc = "latest", !.rows = read_semicolon_csv(history)]
    /\ UNCHANGED <<history, metadata, snapshot, clock, ingests, corr, artifacts, sat_artifact, calc>>

\* line 54
SatReadLatest ==
    /\ sat.pc = "latest"
    /\ sat' = [sat EXCEPT !.pc = "check", !.latest_ts = max_timestamp_in_csv(history)]
    /\ UNCHANGED <<history, metadata, snapshot, clock, ingests, corr, artifacts, sat_artifact, calc>>

\* a run that goes on without a latest timestamp and writes an empty artifact
SatGoesOn ==
    /\ sat.pc = "check"
    /\ sat.latest_ts = {}
    /\ sat' = [sat EXCEPT !.pc = "done"]
    /\ sat_artifact' = {[generated_at |-> {},
                         rankings |-> [cars |-> <<>>, bikes |-> <<>>],
                         city_curves |-> [cars |-> <<>>, bikes |-> <<>>]]}
    /\ UNCHANGED <<history, metadata, snapshot, clock, ingests, corr, artifacts, calc>>

\* lines 56-57: raise SystemExit("Historique vide ...")
SatAbort ==
    /\ sat.pc = "check"
    /\ sat.latest_ts = {}
    /\ sat' = [sat EXCEPT !.pc = "aborted"]
    /\ UNCHANGED <<history, metadata, snapshot, clock, ingests, corr, artifacts, sat_artifact, calc>>

\* lines 59-169
SatAnalyze ==
    /\ sat.pc = "check"
    /\ sat.latest_ts # {}
    /\ LET latest == CHOOSE t \in sat.latest_ts : TRUE
       IN  /\ sat' = [sat EXCEPT !.pc = "done",
                        !.series = SatLoad(EmptySeries, sat.rows,
                                           latest - LOOKBACK_DAYS * DayMinutes)]
           /\ sat_artifact' = {SaturationReport(sat.rows, latest)}
    /\ UNCHANGED <<history, metadata, snapshot, clock, ingests, corr, artifacts, calc>>

(***************************************************************************)
(* update_data.main: one ingestion run.  The payloads are what the two     *)
(* endpoints answer; the three calls of datetime.now() (in the two parsers *)
(* and in main) may fall in different minutes.                             *)
(***************************************************************************)
Item(name, free, total, site) == [name |-> name, free |-> free, total |-> total, site |-> site]

Payloads ==
    { [cars |-> << Item("Gare", 3, 10, {0}) >>,
       bikes |-> << Item("Comédie", 2, 8, {1}) >>],
      [cars |-> << Item("Gare", 5, 10, {}), Item("Antigone", 1, 0, {2}) >>,
       bikes |-> << Item("Comedie", 4, 8, {}), Item("Comédie", 1, 8, {1}) >>] }

Ingest(kc, kb, km, payload) ==
    /\ ingests < MaxIngest
    /\ clock <= kc /\ kc <= kb /\ kb <= km
    /\ LET canonical_maps == load_canonical_name_maps(history)
           car_items == parse_entities("Voiture", payload.cars, canonical_maps)
           bike_items == parse_entities("Velo", payload.bikes, canonical_maps)
           car_rows == [i \in 1..Len(car_items) |->
                           CsvRowOf("Voiture", car_items[i], Instants[kc])]
           bike_rows == [i \in 1..Len(bike_items) |->
                            CsvRowOf("Velo", bike_items[i], Instants[kb])]
           now == Instants[km]
           already == existing_keys_for_timestamp(history, now[1], now[2])
           rows == car_rows \o bike_rows
           to_append == SelectSeqBy(rows,
                            [i \in 1..Len(rows) |-> <<rows[i].Type, rows[i].Nom>> \notin already])
           meta2 == update_metadata(update_metadata(metadata, "Voiture", car_items),
                                    "Velo", bike_items)
       IN  /\ history' = history \o to_append
           /\ metadata' = meta2
           /\ snapshot' = {[generated_at |-> now, cars |-> car_items, bikes |-> bike_items]}
    /\ clock' = km
    /\ ingests' = ingests + 1
    /\ UNCHANGED <<corr, artifacts, sat, sat_artifact, calc>>

(***************************************************************************)
(* Initial states.  The specifications share the actions and differ by     *)
(* the histories they start from:                                          *)
(*   Spec      short histories, with an ingestion run interleaved;         *)
(*   LoadSpec  every history of at most MaxRows rows of LoadRows (rows     *)
(*             with one malformed or unusual cell), one script at a time;  *)
(*   CorrSpec  histories of two car parks and two bike stations observed   *)
(*             at up to four instants, with their metadata;                *)
(*   SatSpec   histories of three entities observed at up to two instants; *)
(*   EmptySpec short histories made mostly of rows without a timestamp,    *)
(*             read by both scripts;                                       *)
(*   FewSpec   histories of three entities with four, two, one or no       *)
(*             observation, read by both scripts;                          *)
(*   StatSpec  one call of stats_lib.correlation on lists of floats.       *)
(* A script that is not run in a behaviour has pc = "off".                 *)
(***************************************************************************)
SeqsUpTo(S, n) == UNION {[1..k -> S] : k \in 0..n}

NoIngestion ==
    /\ snapshot = {}
    /\ clock = 1
    /\ ingests = 0

NoArtifacts ==
    /\ artifacts = [i \in 1..NWindows |-> {}]
    /\ sat_artifact = {}

\* no call of the library on its own: the scripts call it inside CorrCompute
CalcOff == [pc |-> "off", xs |-> <<>>, ys |-> <<>>, r |-> {}]
NoCall == calc = CalcOff

\* ---- Spec
SpecRows ==
    { Row("2024-13-01", "08:00", "Voiture", "Gare", "4", "10"),
      Row("2024-01-10", "08:00", "Voiture", "Gare", "3", "10"),
      Row("2024-01-10", "09:00", "Voiture", "Gare", "5", "10"),
      Row("2024-01-11", "09:00", "Velo", "Comédie", "2", "8") }

Init ==
    /\ history \in SeqsUpTo(SpecRows, MaxRows - 1)
    /\ metadata = <<>>
    /\ NoIngestion
    /\ NoArtifacts
    /\ NoCall
    /\ corr = CorrStart
    /\ sat = SatStart

CorrNext == CorrReadRows \/ CorrReadMeta \/ CorrReadLatest \/ CorrCompute \/ CorrSave
SatNext == SatReadRows \/ SatReadLatest \/ SatAbort \/ SatAnalyze
IngestNext ==
    \E kc, kb, km \in 1..Len(Instants) : \E payload \in Payloads : Ingest(kc, kb, km, payload)

Next == CorrNext \/ SatNext \/ IngestNext
Spec == Init /\ [][Next]_vars

\* ---- LoadSpec
LoadRows ==
    { Row("2024-01-10", "08:00", "Voiture", "Gare", "3", "10"),
      Row("2024-01-10", "8:00", "Voiture", " Gare", "5", "10"),
      Row("2024-01-10", "08:00", "Voiture", "Gare", "4", "0"),
      Row("2024-01-10", "08:00", "Voiture", "Gare", "6", ""),
      Row("2024-01-10", "08:00", "Voiture", "Gare", "2", "abc"),
      Row("2024-01-10", "08:00", "Voiture", "Gare", "1", "-5"),
      Row("2024-01-10", "08:00", "Voiture", "Gare", "x", "10"),
      Row("2024-01-10", "08:00", "Bus", "Gare", "8", "10"),
      Row("2024-13-01", "08:00", "Voiture", "Gare", "8", "10"),
      Row(" 2024-01-10", "08:00 ", "Voiture", "Gare", "0", "10"),
      Row("2024-01-02", "08:00", "Voiture", "Gare", "1", "10"),
      Row("2024-1-3", "08:00", "Voiture", "Gare", "2", "10"),
      Row("2024-01-10", "09:00", "Velo", "Gare", "2", "8"),
      Row("2024-01-10", "08:00", "Voiture", "", "3", "10"),
      Row("2024-01-10", "", "Voiture", "Gare", "3", "10") }

LoadInit ==
    /\ history \in SeqsUpTo(LoadRows, MaxRows)
    /\ metadata = <<>>
    /\ NoIngestion
    /\ NoArtifacts
    /\ NoCall
    /\ \/ corr = CorrStart /\ sat = [SatStart EXCEPT !.pc = "off"]
       \/ corr = [CorrStart EXCEPT !.pc = "off"] /\ sat = SatStart

LoadNext == CorrNext \/ SatNext
LoadSpec == LoadInit /\ [][LoadNext]_vars

\* ---- CorrSpec
\* the instants of the observed histories: one 8 days before the last day,
\* three on the last day
GridInstants ==
    << <<"2024-01-02", "08:00">>, <<"2024-01-10", "08:00">>,
       <<"2024-01-10", "09:00">>, <<"2024-01-10", "10:00">> >>

\* a profile gives, for each instant, the free count observed ({} = no row)
ProfRising == << {1}, {2}, {4}, {3} >>
ProfFlat == << {3}, {3}, {3}, {3} >>
ProfFalling == << {5}, {4}, {2}, {3} >>
ProfClimb == << {0}, {2}, {3}, {5} >>
ProfStep == << {1}, {2}, {2}, {2} >>
ProfShort == << {}, {}, {4}, {1} >>
ProfSingle == << {}, {}, {}, {2} >>

\* the row of an entity at an instant: <<>> when it was not observed
GridRow(typ, name, total, prof, instants, k) ==
    IF prof[k] = {} THEN <<>>
    ELSE << Row(instants[k][1], instants[k][2], typ, name,
                IntStr(CHOOSE v \in prof[k] : TRUE), total) >>

\* the history of the entities ents (each [typ, name, total, prof]): instant
\* by instant as the ingestion appends it, or entity by entity
GridHistory(ents, instants, byInstant) ==
    IF byInstant
    THEN Concat([k \in 1..Len(instants) |-> Concat([e \in 1..Len(ents) |->
             GridRow(ents[e].typ, ents[e].name, ents[e].total, ents[e].prof, instants, k)])])
    ELSE Concat([e \in 1..Len(ents) |-> Concat([k \in 1..Len(instants) |->
             GridRow(ents[e].typ, ents[e].name, ents[e].total, ents[e].prof, instants, k)])])

Ent(typ, name, total, prof) == [typ |-> typ, name |-> name, total |-> total, prof |-> prof]

CorrInit ==
    /\ \E p1 \in {ProfRising, ProfFlat, ProfClimb, ProfStep, ProfShort, ProfSingle},
          p2 \in {ProfRising, ProfFalling, ProfShort},
          p3 \in {ProfRising, ProfFlat, ProfFalling, ProfClimb, ProfStep, ProfSingle},
          p4 \in {ProfRising, ProfClimb, ProfShort},
          byInstant \in BOOLEAN :
          history = GridHistory(
              IF byInstant
              THEN << Ent("Voiture", "Gare", "10", p1), Ent("Voiture", "Antigone", "10", p2),
                      Ent("Velo", "Odysseum", "8", p3), Ent("Velo", "Comedie", "8", p4) >>
              ELSE << Ent("Velo", "Comedie", "8", p4), Ent("Velo", "Odysseum", "8", p3),
                      Ent("Voiture", "Antigone", "10", p2), Ent("Voiture", "Gare", "10", p1) >>,
              GridInstants, byInstant)
    /\ \E s1 \in {{}, {0}}, s2 \in {{0}, {1}}, s3 \in {{}, {0}, {2}} :
          metadata = [k \in {<<"Voiture", "Gare">>, <<"Voiture", "Antigone">>,
                             <<"Velo", "Odysseum">>, <<"Velo", "Comedie">>} |->
                         CASE k = <<"Voiture", "Gare">> -> s1
                           [] k = <<"Voiture", "Antigone">> -> s2
                           [] k = <<"Velo", "Odysseum">> -> s3
                           [] OTHER -> {0}]
    /\ NoIngestion
    /\ NoArtifacts
    /\ NoCall
    /\ corr = CorrStart
    /\ sat = [SatStart EXCEPT !.pc = "off"]

CorrSpec == CorrInit /\ [][CorrNext]_vars

\* ---- SatSpec
SatInstants == << <<"2024-01-10", "08:00">>, <<"2024-01-10", "09:00">> >>

\* the profiles of the first entity: any free count, or no row, at each instant
SatFrees == {{}, {0}, {1}, {2}, {4}, {5}, {6}}

\* the last rows after the observations: none, a second record of a key
\* already observed, a free count above the capacity, a negative free count,
\* or these two and a capacity of 0
SatExtras ==
    { <<>>,
      << Row("2024-01-10", "8:00", "Voiture", "Gare", "3", "10") >>,
      << Row("2024-01-10", "09:00", "Voiture", "Gare", "8", "6") >>,
      << Row("2024-01-10", "09:00", "Velo", "Gare", "-5", "10") >>,
      << Row("2024-01-10", "09:00", "Voiture", "Gare", "8", "6"),
         Row("2024-01-10", "09:00", "Velo", "Gare", "-5", "10"),
         Row("2024-01-10", "09:00", "Voiture", "Antigone", "4", "0") >> }

SatInit ==
    /\ \E p1 \in [1..2 -> SatFrees],
          p2 \in { <<{}, {}>>, <<{5}, {5}>>, <<{4}, {6}>>, <<{1}, {5}>>, <<{2}, {4}>>,
                   <<{2}, {3}>>, <<{0}, {6}>>, <<{0}, {}>>, <<{1}, {}>> },
          p3 \in { <<{}, {}>>, <<{3}, {3}>>, <<{1}, {5}>>, <<{0}, {2}>>, <<{1}, {2}>> },
          typ3 \in Types,
          extra \in SatExtras :
          history = GridHistory(
              << Ent("Voiture", "Gare", "10", p1), Ent("Voiture", "Antigone", "10", p2),
                 Ent(typ3, "Comedie", "6", p3) >>, SatInstants, TRUE) \o extra
    /\ metadata = <<>>
    /\ NoIngestion
    /\ NoArtifacts
    /\ NoCall
    /\ corr = [CorrStart EXCEPT !.pc = "off"]
    /\ sat = SatStart

SatSpec == SatInit /\ [][SatNext]_vars

\* ---- EmptySpec
\* rows whose date or time is blank or does not parse, and one row that has
\* a timestamp
EmptyRows ==
    { Row("2024-13-01", "08:00", "Voiture", "Gare", "4", "10"),
      Row("2024-01-10", "", "Voiture", "Gare", "3", "10"),
      Row("", "09:00", "Velo", "Comédie", "2", "8"),
      Row("2024-01-10", "08:00", "Velo", "Comédie", "2", "8") }

EmptyInit ==
    /\ history \in SeqsUpTo(EmptyRows, MaxRows - 1)
    /\ metadata = <<>>
    /\ NoIngestion
    /\ NoArtifacts
    /\ NoCall
    /\ corr = CorrStart
    /\ sat = SatStart

EmptySpec == EmptyInit /\ [][LoadNext]_vars

\* ---- FewSpec
\* observed at the first and at the last instant only: two points in the
\* windows of 14 days and more, one in the window of 7 days
ProfEnds == << {1}, {}, {}, {3} >>
ProfNone == << {}, {}, {}, {} >>

\* a record written 7 days to the minute before the last instant
FewExtra == << Row("2024-01-03", "10:00", "Voiture", "Gare", "2", "10") >>

FewInit ==
    /\ \E p1 \in {ProfRising, ProfEnds, ProfSingle, ProfNone},
          p2 \in {ProfFalling, ProfShort, ProfNone},
          p3 \in {ProfRising, ProfEnds, ProfSingle, ProfNone},
          extra \in {<<>>, FewExtra} :
          history = GridHistory(
              << Ent("Voiture", "Gare", "10", p1), Ent("Voiture", "Antigone", "10", p2),
                 Ent("Velo", "Odysseum", "8", p3) >>, GridInstants, TRUE) \o extra
    /\ metadata = <<>>
    /\ NoIngestion
    /\ NoArtifacts
    /\ NoCall
    /\ corr = CorrStart
    /\ sat = SatStart

FewSpec == FewInit /\ [][LoadNext]_vars

\* ---- StatSpec
\* the elements of the arguments: the literals 0.1 and 1.1, and 3
StatValues == {FlOfRatio(1, 10), FlOfRatio(11, 10), FlOfRatio(3, 1)}

\* correlation(xs, ys) is called with two lists of the same length
StatInit ==
    /\ history = <<>>
    /\ metadata = <<>>
    /\ NoIngestion
    /\ NoArtifacts
    /\ corr = [CorrStart EXCEPT !.pc = "off"]
    /\ sat = [SatStart EXCEPT !.pc = "off"]
    /\ \E n \in 1..StatLen : \E xs, ys \in [1..n -> StatValues] :
          calc = [pc |-> "call", xs |-> xs, ys |-> ys, r |-> {}]

\* the call returns
Correlate ==
    /\ calc.pc = "call"
    /\ calc' = [calc EXCEPT !.pc = "done", !.r = {float_correlation(calc.xs, calc.ys)}]
    /\ UNCHANGED <<history, metadata, snapshot, clock, ingests, corr, artifacts, sat, sat_artifact>>

StatNext == Correlate
StatSpec == StatInit /\ [][StatNext]_vars

(***************************************************************************)
(* Properties.                                                             *)
(***************************************************************************)
\* the points of a series, as a set of <<type, name, ts, value>>
PointsOfType(series, typ) ==
    UNION {{<<typ, series[typ][i].name, ts, series[typ][i].pts[ts]>> :
               ts \in DOMAIN series[typ][i].pts} : i \in 1..Len(series[typ])}
PointsOf(series) == UNION {PointsOfType(series, typ) : typ \in Types}

\* a window of the correlation run has been computed
CorrComputed == corr.out # {}
\* the cutoff of the saturation run
SatCutoff == (CHOOSE t \in sat.latest_ts : TRUE) - LOOKBACK_DAYS * DayMinutes

\* the capacity cell of a row is absent, non-numeric or <= 0
BadCapacity(r) ==
    \/ ParseFloat(Strip(r.Places_Totales)) = {}
    \/ \A t \in ParseFloat(Strip(r.Places_Totales)) : t <= 0

WithoutBadCapacity(rows) ==
    SelectSeqBy(rows, [i \in 1..Len(rows) |-> ~BadCapacity(rows[i])])

WithCapacity(rows, total) ==
    [i \in 1..Len(rows) |-> [rows[i] EXCEPT !.Places_Totales = total]]

\* ---- C2
\* C2 as stated: a record whose capacity is absent, non-numeric or <= 0
\* contributes no point to the series of either script: the series are
\* those of the history without these records.
C2_NoPointFromBadCapacity ==
    /\ CorrComputed =>
           corr.series = load_time_series(WithoutBadCapacity(corr.csv_rows), corr.cutoff_ts)
    /\ sat.pc = "done" =>
           sat.series = SatLoad(EmptySeries, WithoutBadCapacity(sat.rows), SatCutoff)

\* C2 amended: such a record contributes no point to the saturation series;
\* the correlation series do not read the capacity: they are the same
\* whatever the capacity cells hold, and a record with a bad capacity that
\* passes the other checks contributes its free count.
C2_CapacityOnlyInSaturation ==
    /\ sat.pc = "done" =>
           sat.series = SatLoad(EmptySeries, WithoutBadCapacity(sat.rows), SatCutoff)
    /\ CorrComputed =>
           /\ corr.series = load_time_series(WithCapacity(corr.csv_rows, ""), corr.cutoff_ts)
           /\ \A i \in 1..Len(corr.csv_rows) :
                  CorrKeeps(corr.csv_rows[i], corr.cutoff_ts)
                  => \E p \in PointsOf(corr.series) :
                        /\ p[1] = Strip(corr.csv_rows[i].Type)
                        /\ p[2] = Strip(corr.csv_rows[i].Nom)
                        /\ p[3] = TsOf(corr.csv_rows[i])

\* a saturation run has met a record with a bad capacity that passes every
\* other check, and has stored a point of another record
C2_Witness ==
    /\ sat.pc = "done"
    /\ PointsOf(sat.series) # {}
    /\ \E i \in 1..Len(sat.rows) :
           /\ BadCapacity(sat.rows[i])
           /\ SatKeeps([sat.rows[i] EXCEPT !.Places_Totales = "10"], SatCutoff)

\* ---- C3
SameKey(r1, r2) ==
    /\ Strip(r1.Type) = Strip(r2.Type)
    /\ Strip(r1.Nom) = Strip(r2.Nom)
    /\ RowTs(r1) = RowTs(r2)

\* the points the last-write-wins rule gives: for each key, the value of the
\* last row in file order among the rows that pass the checks
CorrLastWrites(rows, cutoff_ts) ==
    {<<Strip(rows[i].Type), Strip(rows[i].Nom), TsOf(rows[i]), CorrValue(rows[i])>> :
        i \in {i \in 1..Len(rows) :
                  /\ CorrKeeps(rows[i], cutoff_ts)
                  /\ ~\E j \in (i + 1)..Len(rows) :
                         CorrKeeps(rows[j], cutoff_ts) /\ SameKey(rows[i], rows[j])}}

SatLastWrites(rows, cutoff) ==
    {<<Strip(rows[i].Type), Strip(rows[i].Nom), TsOf(rows[i]), SatValue(rows[i])>> :
        i \in {i \in 1..Len(rows) :
                  /\ SatKeeps(rows[i], cutoff)
                  /\ ~\E j \in (i + 1)..Len(rows) :
                         SatKeeps(rows[j], cutoff) /\ SameKey(rows[i], rows[j])}}

\* C3: the value stored for (type, name, timestamp) is that of the last
\* record in file order among those that pass the checks; a skipped record
\* erases nothing.
C3_LastWriteWins ==
    /\ CorrComputed => PointsOf(corr.series) = CorrLastWrites(corr.csv_rows, corr.cutoff_ts)
    /\ sat.pc = "done" => PointsOf(sat.series) = SatLastWrites(sat.rows, SatCutoff)

\* two kept records of one key with different values, then a skipped record
\* of the same entity
C3_Witness ==
    /\ CorrComputed
    /\ \E i, j, k \in 1..Len(corr.csv_rows) :
           /\ i < j /\ j < k
           /\ CorrKeeps(corr.csv_rows[i], corr.cutoff_ts)
           /\ CorrKeeps(corr.csv_rows[j], corr.cutoff_ts)
           /\ SameKey(corr.csv_rows[i], corr.csv_rows[j])
           /\ CorrValue(corr.csv_rows[i]) # CorrValue(corr.csv_rows[j])
           /\ ~CorrKeeps(corr.csv_rows[k], corr.cutoff_ts)
           /\ Strip(corr.csv_rows[k].Nom) = Strip(corr.csv_rows[j].Nom)

\* ---- C4
\* no record of the history has a date and a time that parse
EmptyHistory(h) == \A i \in 1..Len(h) : RowTs(h[i]) = {}

NoPairs(o) == o.pairs = <<>> /\ o.top_global = <<>> /\ o.counts.pairs_computed = 0

\* C4: on an empty history the saturation run can only abort and writes no
\* artifact, while every window of the correlation run is computed and
\* written with zero pairs.
C4_EmptyHistory ==
    EmptyHistory(history) =>
        /\ sat.pc # "done"
        /\ sat_artifact = {}
        /\ sat.pc = "check" => (ENABLED SatAbort) /\ ~(ENABLED SatAnalyze)
        /\ corr.pc \in {"compute", "save"} => ENABLED CorrNext
        /\ \A o \in corr.out : NoPairs(o)
        /\ \A i \in 1..NWindows : \A o \in artifacts[i] : NoPairs(o)

\* both runs have ended on a history of unparseable rows
C4_Witness ==
    /\ history # <<>>
    /\ EmptyHistory(history)
    /\ sat.pc = "aborted"
    /\ corr.pc = "done"
    /\ \A i \in 1..NWindows : artifacts[i] # {}

\* ---- C5
\* C5: the latest timestamp of a run is the one of the rows the run
\* has loaded (one state of the history store).
C5_OneSnapshot ==
    /\ corr.pc \in {"compute", "save", "done"} => corr.latest_ts = MaxTs({}, corr.csv_rows)
    /\ sat.pc \in {"check", "aborted", "done"} => sat.latest_ts = MaxTs({}, sat.rows)

\* ---- C6
AllWindowsComputed == corr.pc = "done" \/ (corr.pc = "save" /\ corr.i = NWindows)

\* C6: no artifact of a run is on disk before every window of the run is
\* computed.
C6_ArtifactsAtEnd ==
    (\E i \in 1..NWindows : artifacts[i] # {}) => AllWindowsComputed

\* what the run does instead: the artifact of a window is written as soon as
\* the window is computed and before the next window is computed, so the
\* windows before the current one are exactly those whose artifact is on
\* disk, and each artifact is the output of compute_for_days for its window.
ArtifactPerWindow ==
    \A k \in 1..NWindows :
        /\ artifacts[k] # {} <=> (corr.pc # "off" /\ k < corr.i)
        /\ artifacts[k] # {} =>
               artifacts[k] = {compute_for_days(corr.csv_rows, corr.meta, corr.latest_ts,
                                                LOOKBACK_OPTIONS[k])}

\* ---- C1
\* the place of an entity in the series of its type (the order of the dict)
EntryIndex(series, typ, name) ==
    CHOOSE i \in 1..Len(series[typ]) : series[typ][i].name = name

\* the timestamps at which an entity has a variation: all its points but the
\* first
DeltaTs(series, typ, name) ==
    LET ts == DOMAIN series[typ][EntryIndex(series, typ, name)].pts
    IN  ts \ {Min(ts)}

\* the number of timestamps a car and a bike have in common
CommonCount(series, car, bike) ==
    Cardinality(DeltaTs(series, "Voiture", car) \cap DeltaTs(series, "Velo", bike))

HasRecord(list, car, bike) ==
    \E k \in 1..Len(list) : list[k].car = car /\ list[k].bike = bike

\* C1: in an output of compute_for_days, a listed car and a listed bike with
\* fewer than MIN_COMMON_POINTS common timestamps have a null matrix cell and
\* no record in pairs nor in top_global; every record of pairs has
\* n >= MIN_COMMON_POINTS (and n is the number of common timestamps).
C1_MinCommonPoints ==
    \A o \in corr.out :
        /\ \A i \in 1..Len(o.cars) : \A j \in 1..Len(o.bikes) :
               CommonCount(corr.series, o.cars[i], o.bikes[j]) < MIN_COMMON_POINTS
               => /\ o.matrix[i][j] = {}
                  /\ ~HasRecord(o.pairs, o.cars[i], o.bikes[j])
                  /\ ~HasRecord(o.top_global, o.cars[i], o.bikes[j])
        /\ \A k \in 1..Len(o.pairs) :
               /\ o.pairs[k].n >= MIN_COMMON_POINTS
               /\ o.pairs[k].n = CommonCount(corr.series, o.pairs[k].car, o.pairs[k].bike)

\* an output with a discarded pair that has one common timestamp, next to a
\* retained pair
C1_Witness ==
    \E o \in corr.out :
        /\ \E i \in 1..Len(o.cars) : \E j \in 1..Len(o.bikes) :
               /\ CommonCount(corr.series, o.cars[i], o.bikes[j]) > 0
               /\ CommonCount(corr.series, o.cars[i], o.bikes[j]) < MIN_COMMON_POINTS
               /\ o.matrix[i][j] = {}
        /\ \E i \in 1..Len(o.cars) : \E j \in 1..Len(o.bikes) :
               /\ o.matrix[i][j] # {}
               /\ HasRecord(o.pairs, o.cars[i], o.bikes[j])

\* ---- C7
\* p is produced before q by the cross-join: cars outermost, each in the
\* order of the series
JoinBefore(series, p, q) ==
    LET pc == EntryIndex(series, "Voiture", p.car)
        qc == EntryIndex(series, "Voiture", q.car)
        pb == EntryIndex(series, "Velo", p.bike)
        qb == EntryIndex(series, "Velo", q.bike)
    IN  pc < qc \/ (pc = qc /\ pb < qb)

\* C7: the emitted pairs are in descending order of score, and two pairs of
\* equal emitted score are in the order the cross-join produced them.
C7_SortedStable ==
    \A o \in corr.out : \A a, b \in 1..Len(o.pairs) :
        a < b => \/ o.pairs[a].score > o.pairs[b].score
                 \/ /\ o.pairs[a].score = o.pairs[b].score
                    /\ JoinBefore(corr.series, o.pairs[a], o.pairs[b])

\* an output where the sort has moved a pair before one produced earlier, and
\* where two pairs of equal score are kept in the order of the cross-join,
\* which is not the order of their names
C7_Witness ==
    \E o \in corr.out :
        /\ \E a, b \in 1..Len(o.pairs) :
               /\ a < b
               /\ o.pairs[a].score > o.pairs[b].score
               /\ JoinBefore(corr.series, o.pairs[b], o.pairs[a])
        /\ \E a, b \in 1..Len(o.pairs) :
               /\ a < b
               /\ o.pairs[a].score = o.pairs[b].score
               /\ \/ NameRank(o.pairs[a].car) > NameRank(o.pairs[b].car)
                  \/ /\ o.pairs[a].car = o.pairs[b].car
                     /\ NameRank(o.pairs[a].bike) > NameRank(o.pairs[b].bike)

\* ---- C8
\* the places in pairs of the records the claim lets through
ShownIndices(pairs) ==
    {i \in 1..Len(pairs) :
        /\ pairs[i].abs_r >= MIN_ABS_CORRELATION_TO_SHOW
        /\ \/ pairs[i].distance_km = {}
           \/ \E d \in pairs[i].distance_km : d <= DEFAULT_MAX_DISTANCE_KM}

\* C8: top_global is the first TOP_N_PAIRS records, in the order of pairs, of
\* those with abs_r >= MIN_ABS_CORRELATION_TO_SHOW and a distance unknown or
\* <= DEFAULT_MAX_DISTANCE_KM; no record of top_global has a known distance
\* above the maximum, and a record of unknown distance that passes the abs_r
\* filter is left out only by the truncation.
C8_TopGlobal ==
    \A o \in corr.out :
        LET idx == SortedSeq(ShownIndices(o.pairs))
            m == IF Len(idx) < TOP_N_PAIRS THEN Len(idx) ELSE TOP_N_PAIRS
        IN  /\ o.top_global = [k \in 1..m |-> o.pairs[idx[k]]]
            /\ \A k \in 1..Len(o.top_global) : \A d \in o.top_global[k].distance_km :
                   d <= DEFAULT_MAX_DISTANCE_KM
            /\ \A i \in 1..Len(o.pairs) :
                   (/\ o.pairs[i].distance_km = {}
                    /\ o.pairs[i].abs_r >= MIN_ABS_CORRELATION_TO_SHOW
                    /\ ~HasRecord(o.top_global, o.pairs[i].car, o.pairs[i].bike))
                   => Len(o.top_global) = TOP_N_PAIRS

\* an output where top_global holds a record of unknown distance, a strongly
\* correlated pair is left out for its distance, and another that passes the
\* filter is left out by the truncation
C8_Witness ==
    \E o \in corr.out :
        /\ \E k \in 1..Len(o.top_global) : o.top_global[k].distance_km = {}
        /\ \E i \in 1..Len(o.pairs) :
               /\ o.pairs[i].abs_r >= MIN_ABS_CORRELATION_TO_SHOW
               /\ \E d \in o.pairs[i].distance_km : d > DEFAULT_MAX_DISTANCE_KM
               /\ ~HasRecord(o.top_global, o.pairs[i].car, o.pairs[i].bike)
        /\ Cardinality(ShownIndices(o.pairs)) > TOP_N_PAIRS
        /\ Len(o.top_global) = TOP_N_PAIRS

\* ---- C9
\* C9: every emitted record has score <= abs_r, and score = abs_r when its
\* distance is unknown.
C9_ScoreAtMostAbsR ==
    \A o \in corr.out : \A list \in {o.pairs, o.top_global} : \A k \in 1..Len(list) :
        /\ list[k].score <= list[k].abs_r
        /\ list[k].distance_km = {} => list[k].score = list[k].abs_r

\* an output with a correlated pair of unknown distance and a pair whose
\* distance lowers the score
C9_Witness ==
    \E o \in corr.out :
        /\ \E k \in 1..Len(o.pairs) :
               o.pairs[k].distance_km = {} /\ o.pairs[k].abs_r > 0
        /\ \E k \in 1..Len(o.pairs) :
               /\ o.pairs[k].distance_km # {}
               /\ 0 < o.pairs[k].score
               /\ o.pairs[k].score < o.pairs[k].abs_r

\* ---- C10
\* C10: in each saturation ranking, an entity A listed before B has a greater
\* mean_occ, or the same mean_occ and a greater sat_pct, or the same mean_occ
\* and sat_pct and a max_occ that is not smaller.
C10_RankingOrder ==
    \A o \in sat_artifact : \A rk \in {o.rankings.cars, o.rankings.bikes} :
        \A a, b \in 1..Len(rk) :
            a < b => \/ rk[a].mean_occ > rk[b].mean_occ
                     \/ rk[a].mean_occ = rk[b].mean_occ /\ rk[a].sat_pct > rk[b].sat_pct
                     \/ /\ rk[a].mean_occ = rk[b].mean_occ
                        /\ rk[a].sat_pct = rk[b].sat_pct
                        /\ rk[a].max_occ >= rk[b].max_occ

\* a ranking with two entities of equal mean_occ ordered by sat_pct, and two
\* of equal mean_occ and sat_pct ordered by max_occ
C10_Witness ==
    \E o \in sat_artifact : \E rk \in {o.rankings.cars, o.rankings.bikes} :
        /\ \E a, b \in 1..Len(rk) :
               /\ a < b
               /\ rk[a].mean_occ = rk[b].mean_occ
               /\ rk[a].sat_pct > rk[b].sat_pct
        /\ \E a, b \in 1..Len(rk) :
               /\ a < b
               /\ rk[a].mean_occ = rk[b].mean_occ
               /\ rk[a].sat_pct = rk[b].sat_pct
               /\ rk[a].max_occ > rk[b].max_occ

\* ---- C11
\* the retained points of a type at a timestamp: one per entity, the last
\* accepted record of the entity at that timestamp
RetainedAt(typ, ts) ==
    {p \in SatLastWrites(sat.rows, SatCutoff) : p[1] = typ /\ p[3] = ts}

RetainedTs(typ) == {p[3] : p \in {q \in SatLastWrites(sat.rows, SatCutoff) : q[1] = typ}}

\* the sum of the occupancies of a set of points, in units of 1 / L
RECURSIVE OccSum(_, _)
OccSum(Q, L) ==
    IF Q = {} THEN 0
    ELSE LET q == CHOOSE x \in Q : TRUE
         IN  q[4].occ.num * (L \div q[4].occ.den) + OccSum(Q \ {q}, L)

\* v is the mean of the occupancies of the points Q, rounded to 4 decimals
IsRoundedMean(v, Q) ==
    LET L == CHOOSE m \in 1..120 : \A q \in Q : m % q[4].occ.den = 0
        b == Cardinality(Q) * L
    IN  /\ Q # {}
        /\ 2 * b * v <= 20000 * OccSum(Q, L) + b
        /\ 20000 * OccSum(Q, L) + b < 2 * b * (v + 1)

CurveOf(o, typ) == IF typ = "Voiture" THEN o.city_curves.cars ELSE o.city_curves.bikes

\* C11: for each type, the timestamps of the city curve are exactly those at
\* which an entity of the type has a retained point, each once and in
\* ascending order, and the value at a timestamp is the mean of the
\* occupancies of the entities reporting at it, one value per entity.
C11_CityCurve ==
    sat.pc = "done" =>
        \A o \in sat_artifact : \A typ \in Types :
            LET curve == CurveOf(o, typ)
            IN  /\ {curve[k].ts : k \in 1..Len(curve)} = RetainedTs(typ)
                /\ \A k \in 1..(Len(curve) - 1) : curve[k].ts < curve[k + 1].ts
                /\ \A k \in 1..Len(curve) :
                       IsRoundedMean(curve[k].avg_occ, RetainedAt(typ, curve[k].ts))

\* a curve of two timestamps, one with a single entity reporting and one with
\* several entities of different occupancies, over a history where a key was
\* recorded twice with different values
C11_Witness ==
    /\ sat.pc = "done"
    /\ \E o \in sat_artifact : \E typ \in Types :
           /\ Len(CurveOf(o, typ)) = 2
           /\ \E t1, t2 \in RetainedTs(typ) :
                  /\ Cardinality(RetainedAt(typ, t1)) = 1
                  /\ \E p, q \in RetainedAt(typ, t2) : p[4].occ # q[4].occ
           /\ \E i, j \in 1..Len(sat.rows) :
                  /\ i < j
                  /\ Strip(sat.rows[i].Type) = typ
                  /\ SameKey(sat.rows[i], sat.rows[j])
                  /\ SatKeeps(sat.rows[i], SatCutoff)
                  /\ SatKeeps(sat.rows[j], SatCutoff)
                  /\ SatValue(sat.rows[i]) # SatValue(sat.rows[j])

\* ---- C12
\* a row passes every check of the saturation loop but those on the capacity
\* value: its fields are filled, its type is known, its timestamp parses and
\* is not before the cutoff, and both counts are numbers
SatFieldsOk(r) ==
    /\ Strip(r.Date) # "" /\ Strip(r.Heure) # ""
    /\ Strip(r.Type) \in Types /\ Strip(r.Nom) # ""
    /\ RowTs(r) # {}
    /\ TsOf(r) >= SatCutoff
    /\ ParseFloat(Strip(r.Places_Libres)) # {}
    /\ ParseFloat(Strip(r.Places_Totales)) # {}

FreeOf(r) == CHOOSE f \in ParseFloat(Strip(r.Places_Libres)) : TRUE
TotalOf(r) == CHOOSE t \in ParseFloat(Strip(r.Places_Totales)) : TRUE

\* 1 - free / total brought back into [0, 1], for total > 0, as the fraction
\* num / den
ClampedOcc(free, total) ==
    IF free >= total THEN [num |-> 0, den |-> 1]
    ELSE IF free <= 0 THEN [num |-> 1, den |-> 1]
    ELSE [num |-> total - free, den |-> total]

\* the rows that give a point: those with total > 0, the last one of each key
GivesPoint(rows, i) ==
    /\ SatFieldsOk(rows[i])
    /\ TotalOf(rows[i]) > 0
    /\ ~\E j \in (i + 1)..Len(rows) :
           /\ SatFieldsOk(rows[j]) /\ TotalOf(rows[j]) > 0
           /\ SameKey(rows[i], rows[j])

RowMakes(r, p) ==
    /\ p[1] = Strip(r.Type) /\ p[2] = Strip(r.Nom) /\ p[3] = TsOf(r)
    /\ LET c == ClampedOcc(FreeOf(r), TotalOf(r))
       IN  p[4].occ.num * c.den = c.num * p[4].occ.den

InUnit(v) == 0 <= v /\ v <= 10000

\* C12: a row gives no occupancy exactly when its total is <= 0; otherwise
\* the occupancy stored is 1 - free / total brought back into [0, 1] (0 when
\* free >= total, 1 when free <= 0); every occupancy of the series, of the
\* rankings and of the city curves lies in [0, 1].
C12_OccClamped ==
    sat.pc = "done" =>
        /\ \A i \in 1..Len(sat.rows) :
               GivesPoint(sat.rows, i)
               => \E p \in PointsOf(sat.series) : RowMakes(sat.rows[i], p)
        /\ \A p \in PointsOf(sat.series) :
               /\ \E i \in 1..Len(sat.rows) :
                      GivesPoint(sat.rows, i) /\ RowMakes(sat.rows[i], p)
               /\ 0 <= p[4].occ.num /\ p[4].occ.num <= p[4].occ.den
        /\ \A o \in sat_artifact :
               /\ \A rk \in {o.rankings.cars, o.rankings.bikes} : \A k \in 1..Len(rk) :
                      InUnit(rk[k].mean_occ) /\ InUnit(rk[k].max_occ)
               /\ \A typ \in Types : \A k \in 1..Len(CurveOf(o, typ)) :
                      InUnit(CurveOf(o, typ)[k].avg_occ)

\* a run that has stored an occupancy of 0 for a free count above the
\* capacity, an occupancy of 1 for a negative free count, an occupancy
\* strictly between the two, and has met a row whose capacity is 0
C12_Witness ==
    /\ sat.pc = "done"
    /\ \E i \in 1..Len(sat.rows) :
           /\ GivesPoint(sat.rows, i) /\ FreeOf(sat.rows[i]) > TotalOf(sat.rows[i])
           /\ \E p \in PointsOf(sat.series) : RowMakes(sat.rows[i], p) /\ p[4].occ.num = 0
    /\ \E i \in 1..Len(sat.rows) :
           /\ GivesPoint(sat.rows, i) /\ FreeOf(sat.rows[i]) < 0
           /\ \E p \in PointsOf(sat.series) :
                  RowMakes(sat.rows[i], p) /\ p[4].occ.num = p[4].occ.den
    /\ \E p \in PointsOf(sat.series) : 0 < p[4].occ.num /\ p[4].occ.num < p[4].occ.den
    /\ \E i \in 1..Len(sat.rows) : SatFieldsOk(sat.rows[i]) /\ TotalOf(sat.rows[i]) <= 0

\* ---- C13
\* the number of retained points of an entity in the window of the
\* correlation output held by the run, and in the window of the saturation run
CorrPointCount(typ, name) ==
    Cardinality({p \in CorrLastWrites(corr.csv_rows, corr.cutoff_ts) :
                    p[1] = typ /\ p[2] = name})

SatPointCount(typ, name) ==
    Cardinality({p \in SatLastWrites(sat.rows, SatCutoff) : p[1] = typ /\ p[2] = name})

\* the entities of a type that a row of the history names
NamesIn(rows, typ) ==
    {Strip(rows[i].Nom) : i \in {i \in 1..Len(rows) : Strip(rows[i].Type) = typ}}

RankingOf(o, typ) == IF typ = "Voiture" THEN o.rankings.cars ELSE o.rankings.bikes

\* the correlation output lists exactly the entities with at least 2 retained
\* points in its window, and its matrix and pairs name listed entities only
CorrListsTwoPoints ==
    \A o \in corr.out :
        /\ \A name \in NamesIn(corr.csv_rows, "Voiture") :
               name \in Range(o.cars) <=> CorrPointCount("Voiture", name) >= 2
        /\ \A name \in NamesIn(corr.csv_rows, "Velo") :
               name \in Range(o.bikes) <=> CorrPointCount("Velo", name) >= 2
        /\ Range(o.cars) \subseteq NamesIn(corr.csv_rows, "Voiture")
        /\ Range(o.bikes) \subseteq NamesIn(corr.csv_rows, "Velo")
        /\ Len(o.matrix) = Len(o.cars)
        /\ \A i \in 1..Len(o.matrix) : Len(o.matrix[i]) = Len(o.bikes)
        /\ \A list \in {o.pairs, o.top_global} : \A k \in 1..Len(list) :
               /\ CorrPointCount("Voiture", list[k].car) >= 2
               /\ CorrPointCount("Velo", list[k].bike) >= 2

\* C13 as stated: an entity with fewer than 2 retained points in the window
\* is absent from the correlation output and from the saturation rankings.
C13_FewPointsDiscarded ==
    /\ CorrListsTwoPoints
    /\ sat.pc = "done" =>
           \A o \in sat_artifact : \A typ \in Types :
               \A k \in 1..Len(RankingOf(o, typ)) :
                   SatPointCount(typ, RankingOf(o, typ)[k].name) >= 2

\* C13 amended: an entity with fewer than 2 retained points in the window is
\* absent from the cars and bikes lists, the matrix and the pairs of the
\* correlation output; a saturation ranking lists every entity of its type
\* with at least 1 retained point, once, with its number of points.
C13_FewPointsInCorrelationOnly ==
    /\ CorrListsTwoPoints
    /\ sat.pc = "done" =>
           \A o \in sat_artifact : \A typ \in Types :
               LET rk == RankingOf(o, typ)
               IN  /\ \A name \in NamesIn(sat.rows, typ) :
                          SatPointCount(typ, name) >= 1
                          <=> \E k \in 1..Len(rk) : rk[k].name = name
                   /\ \A k \in 1..Len(rk) :
                          /\ rk[k].n_points = SatPointCount(typ, rk[k].name)
                          /\ rk[k].n_points >= 1
                          /\ \A j \in 1..Len(rk) : rk[j].name = rk[k].name => j = k

\* the window of 7 days of a correlation run lists one car and leaves out
\* another that has a single point in it, while the saturation ranking of the
\* same history lists an entity with a single point
C13_Witness ==
    /\ \E o \in corr.out :
           /\ o.lookback_days = 7
           /\ o.cars # <<>>
           /\ \E name \in NamesIn(corr.csv_rows, "Voiture") :
                  CorrPointCount("Voiture", name) = 1 /\ name \notin Range(o.cars)
    /\ sat.pc = "done"
    /\ \E o \in sat_artifact : \E typ \in Types : \E k \in 1..Len(RankingOf(o, typ)) :
           RankingOf(o, typ)[k].n_points = 1

\* ---- C14
\* a row passes the field checks of the correlation loader: the checks of
\* the loop but the one on the cutoff
CorrFieldsOk(r) ==
    /\ Strip(r.Date) # "" /\ Strip(r.Heure) # ""
    /\ Strip(r.Type) \in Types /\ Strip(r.Nom) # ""
    /\ RowTs(r) # {}
    /\ ParseFloat(Strip(r.Places_Libres)) # {}

KeyOf(r) == <<Strip(r.Type), Strip(r.Nom), TsOf(r)>>

\* the rows of the history but those dated strictly before ts
NotBefore(rows, ts) ==
    SelectSeqBy(rows, [i \in 1..Len(rows) |-> ~(RowTs(rows[i]) # {} /\ TsOf(rows[i]) < ts)])

\* C14: in the output of a window of `days` days with a defined latest
\* timestamp, the keys of the series are those of the records that pass the
\* field checks and are dated at or after latest - days; the series and the
\* whole output are those of the history without the records dated strictly
\* before that cutoff.
C14_CutoffInclusive ==
    \A o \in corr.out : \A latest \in corr.latest_ts :
        LET cutoff == latest - o.lookback_days * DayMinutes
            rows == corr.csv_rows
        IN  /\ {<<p[1], p[2], p[3]>> : p \in PointsOf(corr.series)}
                   = {KeyOf(rows[i]) : i \in {i \in 1..Len(rows) :
                          CorrFieldsOk(rows[i]) /\ TsOf(rows[i]) >= cutoff}}
            /\ corr.series = load_time_series(NotBefore(rows, cutoff), {})
            /\ o = compute_for_days(NotBefore(rows, cutoff), corr.meta,
                                    corr.latest_ts, o.lookback_days)

\* an output with a pair, computed over a history with a record at the cutoff
\* itself, which is in the series, and a record of the same entity before the
\* cutoff, which is not
C14_Witness ==
    \E o \in corr.out : \E latest \in corr.latest_ts :
        LET cutoff == latest - o.lookback_days * DayMinutes
            rows == corr.csv_rows
        IN  /\ o.pairs # <<>>
            /\ \E i, j \in 1..Len(rows) :
                   /\ CorrFieldsOk(rows[i]) /\ CorrFieldsOk(rows[j])
                   /\ Strip(rows[i].Nom) = Strip(rows[j].Nom)
                   /\ Strip(rows[i].Type) = Strip(rows[j].Type)
                   /\ TsOf(rows[i]) = cutoff
                   /\ TsOf(rows[j]) < cutoff
                   /\ \E p \in PointsOf(corr.series) : <<p[1], p[2], p[3]>> = KeyOf(rows[i])
                   /\ ~\E p \in PointsOf(corr.series) : <<p[1], p[2], p[3]>> = KeyOf(rows[j])

\* ---- C15
\* every element of v is the same
IsConstant(v) == \A i, j \in 1..Len(v) : v[i] = v[j]

\* C15: correlation(xs, ys) on two non-empty lists of the same length returns
\* exactly 0.0 whenever xs or ys is constant (both constant and xs = ys
\* included).
C15_ConstantGivesZero ==
    (calc.pc = "done" /\ (IsConstant(calc.xs) \/ IsConstant(calc.ys)))
        => calc.r = {FlZero}


\* ---- C16
\* the key of a record of the history store: its date, time, type and name
HistoryKey(r) == <<r.Date, r.Heure, Strip(r.Type), Strip(r.Nom)>>

\* no two records of the file have the same key
DuplicateFree(file) ==
    \A i, j \in 1..Len(file) : HistoryKey(file[i]) = HistoryKey(file[j]) => i = j

\* C16: an ingestion run that starts from a history with at most one record
\* per (date, time, type, name) leaves such a history; so does any sequence
\* of runs from an empty or duplicate-free history, and a second run in the
\* same minute appends no record of a key already recorded.
C16_NoDuplicateKey == [][DuplicateFree(history) => DuplicateFree(history')]_vars


\* ---- C17
\* the cells of a matrix that are not null, as <<row, column>>
NonNullCells(matrix) ==
    {<<i, j>> \in (1..Len(matrix)) \X (1..Max({0} \cup {Len(matrix[i]) : i \in 1..Len(matrix)})) :
        j <= Len(matrix[i]) /\ matrix[i][j] # {}}

\* C17: in an output of compute_for_days the matrix has len(cars) rows of
\* len(bikes) cells; the number of non-null cells is len(pairs) and is
\* counts.pairs_computed; the cell of (car, bike) is non-null exactly when
\* pairs has a record of (car, bike), and it is then the r of that record.
C17_MatrixMatchesPairs ==
    \A o \in corr.out :
        /\ Len(o.matrix) = Len(o.cars)
        /\ \A i \in 1..Len(o.matrix) : Len(o.matrix[i]) = Len(o.bikes)
        /\ Cardinality(NonNullCells(o.matrix)) = Len(o.pairs)
        /\ Len(o.pairs) = o.counts.pairs_computed
        /\ \A i \in 1..Len(o.cars) : \A j \in 1..Len(o.bikes) :
               o.matrix[i][j] # {} <=> HasRecord(o.pairs, o.cars[i], o.bikes[j])
        /\ \A k \in 1..Len(o.pairs) :
               \E i \in 1..Len(o.cars) : \E j \in 1..Len(o.bikes) :
                   /\ o.cars[i] = o.pairs[k].car
                   /\ o.bikes[j] = o.pairs[k].bike
                   /\ o.matrix[i][j] = {o.pairs[k].r}

\* an output of two cars and two bikes whose matrix has a null cell and two
\* cells of different signs
C17_Witness ==
    \E o \in corr.out :
        /\ Len(o.cars) = 2 /\ Len(o.bikes) = 2
        /\ \E i, j \in 1..2 : o.matrix[i][j] = {}
        /\ \E i, j \in 1..2 : \E v \in o.matrix[i][j] : v < 0
        /\ \E i, j \in 1..2 : \E v \in o.matrix[i][j] : v > 0

====
